---- MODULE Spec2Model ----
(***************************************************************************)
(* Model of classes/simulator_7.py: the discrete-event Simulator that      *)
(* executes a production plan on a SimPy environment.  The SimPy event     *)
(* queue (ordered by time, priority, insertion), the FilterStore that      *)
(* holds the resource instances, the operator's decisions and every        *)
(* activity process (one generator per dispatch) are explicit state.       *)
(***************************************************************************)
EXTENDS Integers, Sequences, FiniteSets, TLC

(* ------------------------------ bounds --------------------------------- *)
\* largest number of activity processes the operator may spawn in one run
MaxDispatch == 3
\* largest delay the operator may return from send_next_activity
MaxDelay == 2
\* run horizon passed to simulate(sim_time=...)
SimTime == 4
\* run horizon and largest delay of the runs of the "serial" plan
SerialSimTime == 10
SerialMaxDelay == 4

(* ----------------------------- constants ------------------------------- *)
\* float("inf"), the timestamp of a sentinel ResourceUsageRecord
Inf == 1000000
\* SimPy event priorities
URGENT == 0
NORMAL == 1

None == "None"
AVAILABILITY == "AVAILABILITY"
PRECEDENCE == "PRECEDENCE"
MIN_LAG == "MIN_LAG"
MAX_LAG == "MAX_LAG"
COMPATIBILITY == "COMPATIBILITY"
FailureCode == {AVAILABILITY, PRECEDENCE, MIN_LAG, MAX_LAG, COMPATIBILITY}

START == "START"
END == "END"

(* ------------------------------- plan ---------------------------------- *)
\* The plans handed to Simulator.__init__.  Product ids equal product
\* indices.  Resource group r is resource_names[r].
\*   "main":      two products, lags and incompatibilities
\*   "serial":    one product, one group of capacity 1, activity 0 (duration 4)
\*                before activity 1 (duration 5) with min_lag 1
\*   "multi":     multi-unit needs, and a need above the group's capacity
\*   "malformed": a demanded group of capacity 0 and a short needs vector
PlanNames == {"main"}

\* plan.factory.capacity
capacity(pl) ==
    CASE pl = "serial"    -> <<1>>
      [] pl = "multi"     -> <<4, 1>>
      [] pl = "malformed" -> <<1, 0>>
      [] OTHER            -> <<2, 1>>

\* len(self.resource_names)
nr_resources(pl) == Len(capacity(pl))

\* (product_index, activity_id) of every planned activity (plan.earliest_start)
earliest_start(pl) ==
    CASE pl = "serial"    -> {<<0, 0>>, <<0, 1>>}
      [] pl = "multi"     -> {<<0, 0>>, <<0, 1>>}
      [] pl = "malformed" -> {<<0, 0>>, <<0, 1>>, <<0, 2>>}
      [] OTHER            -> {<<0, 0>>, <<0, 1>>, <<0, 2>>, <<1, 0>>}

\* len(self.plan.products)
nr_products(pl) == IF pl = "main" THEN 2 ELSE 1

\* plan.products[p].deadline
deadline(pl, p) ==
    CASE pl = "serial" -> 8
      [] OTHER         -> IF p = 0 THEN 2 ELSE 1

\* plan.products[p].activities[a].needs
needs_of(pl, k) ==
    CASE pl = "serial"                     -> <<1>>
      [] pl = "multi" /\ k = <<0, 0>>      -> <<3, 1>>
      [] pl = "multi" /\ k = <<0, 1>>      -> <<0, 2>>
      [] pl = "malformed" /\ k = <<0, 0>>  -> <<1, 0>>
      [] pl = "malformed" /\ k = <<0, 1>>  -> <<0, 1>>
      [] pl = "malformed" /\ k = <<0, 2>>  -> <<1>>
      [] pl = "main" /\ k = <<0, 0>>       -> <<1, 1>>
      [] pl = "main" /\ k = <<0, 1>>       -> <<1, 0>>
      [] pl = "main" /\ k = <<0, 2>>       -> <<0, 1>>
      [] OTHER                             -> <<1, 0>>

\* processing times the operator may sample for the activity
processing_time(pl, k) ==
    CASE pl = "serial" /\ k = <<0, 0>> -> {4}
      [] pl = "serial" /\ k = <<0, 1>> -> {5}
      [] pl = "main" /\ k = <<0, 0>>   -> {2}
      [] OTHER                         -> {1}

\* plan.products[p].predecessors[a], in declared order
predecessors(pl, k) ==
    CASE pl = "serial" /\ k = <<0, 1>> -> <<0>>
      [] pl = "main" /\ k = <<0, 1>>   -> <<0>>
      [] pl = "main" /\ k = <<0, 2>>   -> <<0, 1>>
      [] OTHER                         -> <<>>

\* plan.products[p].temporal_relations[(pred, a)]
temporal_relations(pl, p, pred, a) ==
    CASE pl = "serial"                         -> [min_lag |-> 1, has_max |-> FALSE, max_lag |-> 0]
      [] pl = "main" /\ <<pred, a>> = <<0, 1>> -> [min_lag |-> 1, has_max |-> TRUE, max_lag |-> 2]
      [] pl = "main" /\ <<pred, a>> = <<0, 2>> -> [min_lag |-> 1, has_max |-> FALSE, max_lag |-> 0]
      [] OTHER                                 -> [min_lag |-> 0, has_max |-> TRUE, max_lag |-> 0]

\* plan.products[p].activities[a].constraints: (product_id, activity_id) pairs
constraints(pl, k) ==
    CASE pl = "main" /\ k = <<0, 0>> -> {<<1, 0>>}
      [] pl = "main" /\ k = <<1, 0>> -> {<<0, 0>>}
      [] OTHER                       -> {}

\* the sim_time argument of simulate for the plan
horizon(pl) == IF pl = "serial" THEN SerialSimTime ELSE SimTime

\* the delays the operator may return from send_next_activity
delays(pl) == IF pl = "serial" THEN 0..SerialMaxDelay ELSE 0..MaxDelay

(* ------------------------------ state ---------------------------------- *)
VARIABLES
    plan,              \* self.plan (name of the plan)
    sim_time,          \* the until argument of env.run
    phase,             \* "constructed", "running" (inside env.run), "done"
    now,               \* env.now
    queue,             \* env._queue: scheduled events in processing order
    get_queue,         \* factory.get_queue: get requests that found no item
    items,             \* factory.items: instances in the pool, in list order
    procs,             \* the activity_processing generators, by dispatch order
    finish,            \* local 'finish' of activity_generator
    log,               \* logger: the appended LogEntries
    active_processes,  \* logger.active_processes
    failure_code,      \* logger.failure_code
    nr_clashes,        \* self.nr_clashes
    resource_usage,    \* self.resource_usage
    signals,           \* calls of operator.signal_failed_activity, in order
    result             \* what simulate returns, or the exception it raises

vars == <<plan, sim_time, phase, now, queue, get_queue, items, procs, finish,
          log, active_processes, failure_code, nr_clashes, resource_usage,
          signals, result>>

(* ----------------------------- helpers --------------------------------- *)
RECURSIVE SeqSum(_)
SeqSum(s) == IF s = <<>> THEN 0 ELSE Head(s) + SeqSum(Tail(s))

Groups(pl) == 1..nr_resources(pl)

\* env.schedule: heappush with key (time, priority, eid); eid grows with
\* every scheduled event, so a new event goes after all events with an
\* equal or smaller (time, priority).
Before(e, f) == e.time < f.time \/ (e.time = f.time /\ e.prio <= f.prio)

RECURSIVE schedule(_, _)
schedule(q, ev) ==
    IF q = <<>> THEN <<ev>>
    ELSE IF Before(Head(q), ev) THEN <<Head(q)>> \o schedule(Tail(q), ev)
    ELSE <<ev>> \o q

Event(t, prio, kind, proc, item) ==
    [time |-> t, prio |-> prio, kind |-> kind, proc |-> proc, item |-> item]

\* [i.resource_group for i in self.factory.items].count(resource_names)
available_machines(its, r) ==
    Cardinality({i \in 1..Len(its) : its[i][1] = r})

\* index of the first item of group r in the store, 0 when there is none
\* (FilterStore._do_get scans self.items in order)
RECURSIVE FirstMatch(_, _, _)
FirstMatch(its, r, i) ==
    IF i > Len(its) THEN 0
    ELSE IF its[i][1] = r THEN i
    ELSE FirstMatch(its, r, i + 1)

RemoveAt(s, i) == SubSeq(s, 1, i - 1) \o SubSeq(s, i + 1, Len(s))

\* the groups requested by the nested loops over needs, one entry per get
RECURSIVE Demand(_, _)
Demand(needs, r) ==
    IF r > Len(needs) THEN <<>>
    ELSE [j \in 1..needs[r] |-> r] \o Demand(needs, r + 1)

(* ------------------- SimulatorLogger (classes.classes) ------------------ *)
LogEntry(p, a, action, t) ==
    [product_index |-> p, activity_id |-> a, action |-> action, timestamp |-> t]

\* logger.log_activity: append the entry; START adds the pair to the
\* active processes, END removes it
log_activity_log(lg, p, a, action, t) == Append(lg, LogEntry(p, a, action, t))

log_activity_active(act, p, a, action) ==
    IF action = START THEN act \cup {<<p, a>>} ELSE act \ {<<p, a>>}

\* positions of the entries of (p, a, action) in the log
EntryIndexes(lg, p, a, action) ==
    {i \in 1..Len(lg) : /\ lg[i].product_index = p
                        /\ lg[i].activity_id = a
                        /\ lg[i].action = action}

\* logger.fetch_latest_entry: position of the latest matching entry, 0 for None
fetch_latest_entry(lg, p, a, action) ==
    LET S == EntryIndexes(lg, p, a, action)
    IN  IF S = {} THEN 0 ELSE CHOOSE i \in S : \A j \in S : j <= i

(* -------------------------- constraint checks --------------------------- *)
\* an availability check that only asks for one instance of each needed group
_availability_constraint_check_any(pl, its, needs) ==
    IF \E r \in 1..Len(needs) :
          needs[r] > 0 /\ available_machines(its, r) < 1
    THEN AVAILABILITY
    ELSE None

\* Simulator._availability_constraint_check
_availability_constraint_check(pl, its, needs) ==
    IF \E r \in 1..Len(needs) :
          needs[r] > 0 /\ available_machines(its, r) < needs[r]
    THEN AVAILABILITY
    ELSE None

\* a precedence check that skips a predecessor without a START entry
RECURSIVE PrecedenceFrom_skip(_, _, _, _, _, _)
PrecedenceFrom_skip(pl, lg, t, k, i, lfc) ==
    LET preds == predecessors(pl, k)
    IN  IF i > Len(preds) THEN [ret |-> None, failure_code |-> lfc]
        ELSE
          LET pred == preds[i]
              temp_rel == temporal_relations(pl, k[1], pred, k[2])
              e == fetch_latest_entry(lg, k[1], pred, START)
          IN  IF e = 0 THEN PrecedenceFrom_skip(pl, lg, t, k, i + 1, lfc)
              ELSE IF t - lg[e].timestamp < temp_rel.min_lag
                   THEN PrecedenceFrom_skip(pl, lg, t, k, i + 1, MIN_LAG)
              ELSE IF /\ temp_rel.has_max
                      /\ temp_rel.max_lag # 0
                      /\ t - lg[e].timestamp > temp_rel.max_lag
                   THEN [ret |-> MAX_LAG, failure_code |-> lfc]
              ELSE PrecedenceFrom_skip(pl, lg, t, k, i + 1, lfc)

\* Simulator._precedence_constraint_check, from the i-th predecessor on.
\* lfc is logger.failure_code, which the MIN_LAG branch assigns; the result
\* is the returned code together with logger.failure_code at the return.
RECURSIVE PrecedenceFrom(_, _, _, _, _, _)
PrecedenceFrom(pl, lg, t, k, i, lfc) ==
    LET preds == predecessors(pl, k)
    IN  IF i > Len(preds) THEN [ret |-> None, failure_code |-> lfc]
        ELSE
          LET pred == preds[i]
              temp_rel == temporal_relations(pl, k[1], pred, k[2])
              e == fetch_latest_entry(lg, k[1], pred, START)
          IN  IF e = 0 THEN [ret |-> PRECEDENCE, failure_code |-> lfc]
              ELSE IF t - lg[e].timestamp < temp_rel.min_lag
                   THEN PrecedenceFrom(pl, lg, t, k, i + 1, MIN_LAG)
              ELSE IF /\ temp_rel.has_max
                      /\ temp_rel.max_lag # 0
                      /\ t - lg[e].timestamp > temp_rel.max_lag
                   THEN [ret |-> MAX_LAG, failure_code |-> lfc]
              ELSE PrecedenceFrom(pl, lg, t, k, i + 1, lfc)

_precedence_constraint_check(pl, lg, t, k, lfc) ==
    PrecedenceFrom(pl, lg, t, k, 1, lfc)

\* Simulator._compatibility_constraint_check
_compatibility_constraint_check(pl, act, k) ==
    IF \E c \in constraints(pl, k) : c \in act THEN COMPATIBILITY ELSE None

\* The expression assigned to logger.failure_code at the head of
\* activity_processing: availability or precedence or compatibility, with
\* Python's short-circuit 'or'.  'during' is logger.failure_code when the
\* last of the evaluated checks returns, 'code' the value then assigned.
ConstraintCheck(pl, its, lg, act, t, k, needs, lfc) ==
    LET av == _availability_constraint_check(pl, its, needs)
        pr == _precedence_constraint_check(pl, lg, t, k, lfc)
        co == _compatibility_constraint_check(pl, act, k)
    IN  IF av # None THEN [code |-> av, during |-> lfc]
        ELSE IF pr.ret # None THEN [code |-> pr.ret, during |-> pr.failure_code]
        ELSE [code |-> co, during |-> pr.failure_code]

(* --------------------------- SimPy FilterStore -------------------------- *)
\* a store that hands out an instance and keeps it in the pool
RECURSIVE _trigger_get_shared(_, _, _, _, _)
_trigger_get_shared(its, gq, q, t, i) ==
    IF i > Len(gq) THEN [items |-> its, get_queue |-> gq, queue |-> q]
    ELSE LET m == FirstMatch(its, gq[i].group, 1)
         IN  IF m = 0 THEN _trigger_get_shared(its, gq, q, t, i + 1)
             ELSE _trigger_get_shared(its, RemoveAt(gq, i),
                               schedule(q, Event(t, NORMAL, "get", gq[i].proc, its[m])),
                               t, i)

\* FilterStore._trigger_get from position i of the get queue: every waiting
\* get whose filter matches an item takes the first such item, succeeds (its
\* event is scheduled at the current time) and leaves the queue.
RECURSIVE _trigger_get(_, _, _, _, _)
_trigger_get(its, gq, q, t, i) ==
    IF i > Len(gq) THEN [items |-> its, get_queue |-> gq, queue |-> q]
    ELSE LET m == FirstMatch(its, gq[i].group, 1)
         IN  IF m = 0 THEN _trigger_get(its, gq, q, t, i + 1)
             ELSE _trigger_get(RemoveAt(its, m), RemoveAt(gq, i),
                               schedule(q, Event(t, NORMAL, "get", gq[i].proc, its[m])),
                               t, i)

\* self.factory.get(filter on group r) by process p: the request joins the
\* get queue and the queue is triggered at once
factory_get(c, p, r, t) ==
    LET g == _trigger_get(c.items, Append(c.get_queue, [proc |-> p, group |-> r]),
                          c.queue, t, 1)
    IN  [c EXCEPT !.items = g.items, !.get_queue = g.get_queue, !.queue = g.queue]

\* factory.put that succeeds without storing the item
factory_put_lost(c, p, pl, resource, t) ==
    [c EXCEPT !.queue = schedule(c.queue, Event(t, NORMAL, "put", p, <<>>))]

\* self.factory.put(resource) by process p: the store has room for every
\* instance, the item is appended and the put event succeeds
factory_put(c, p, pl, resource, t) ==
    IF Len(c.items) < SeqSum(capacity(pl))
    THEN [c EXCEPT !.items = Append(c.items, resource),
                   !.queue = schedule(c.queue, Event(t, NORMAL, "put", p, <<>>))]
    ELSE c

(* --------------------------- activity process --------------------------- *)
\* the frame of a fresh activity_processing generator
Process(k, proc_time, needs) ==
    [product_index |-> k[1], activity_id |-> k[2], proc_time |-> proc_time,
     needs |-> needs, state |-> "requested", request_time |-> Inf,
     retrieve_time |-> Inf, start_time |-> Inf, end_time |-> Inf,
     resources |-> <<>>, nput |-> 0]

\* the sentinel written by simulate for every planned activity
Sentinel(pl, k) ==
    [ProductIndex |-> k[1], Activity |-> k[2],
     Needs |-> [r \in Groups(pl) |-> Inf],
     processed |-> FALSE, resources |-> <<>>,
     Request |-> Inf, Retrieve |-> Inf, Start |-> Inf, Finish |-> Inf]

\* a record written without its finish time
UsageRecord_partial(pr) ==
    [ProductIndex |-> pr.product_index, Activity |-> pr.activity_id,
     Needs |-> pr.needs, processed |-> TRUE, resources |-> pr.resources,
     Request |-> pr.request_time, Retrieve |-> pr.retrieve_time,
     Start |-> pr.start_time, Finish |-> Inf]

\* the record written by a process after its last release
UsageRecord(pr) ==
    [ProductIndex |-> pr.product_index, Activity |-> pr.activity_id,
     Needs |-> pr.needs, processed |-> TRUE, resources |-> pr.resources,
     Request |-> pr.request_time, Retrieve |-> pr.retrieve_time,
     Start |-> pr.start_time, Finish |-> pr.end_time]

\* The shared state a process step works on.
Ctx ==
    [procs |-> procs, items |-> items, get_queue |-> get_queue,
     queue |-> Tail(queue), log |-> log, active_processes |-> active_processes,
     resource_usage |-> resource_usage]

\* a request loop that registers the pair as active with its first request
AcquireOrStart_early(c, p, t) ==
    LET pr == c.procs[p]
        d == Demand(pr.needs, 1)
    IN  IF Len(pr.resources) < Len(d)
        THEN factory_get([c EXCEPT !.procs[p].state = "acquiring",
                                   !.active_processes =
                                       log_activity_active(c.active_processes,
                                                           pr.product_index,
                                                           pr.activity_id, START)],
                         p, d[Len(pr.resources) + 1], t)
        ELSE [c EXCEPT
                !.procs[p].state = "running",
                !.procs[p].retrieve_time = t,
                !.procs[p].start_time = t,
                !.log = log_activity_log(c.log, pr.product_index, pr.activity_id, START, t),
                !.active_processes =
                    log_activity_active(c.active_processes, pr.product_index,
                                        pr.activity_id, START),
                !.queue = schedule(c.queue, Event(t + pr.proc_time, NORMAL, "timeout", p, <<>>))]

\* The request loop of process p from its next get on: either the next
\* factory.get is issued and the process yields on it, or all instances are
\* held and the process logs START and yields on the processing timeout.
AcquireOrStart(c, p, t) ==
    LET pr == c.procs[p]
        d == Demand(pr.needs, 1)
    IN  IF Len(pr.resources) < Len(d)
        THEN factory_get([c EXCEPT !.procs[p].state = "acquiring"],
                         p, d[Len(pr.resources) + 1], t)
        ELSE [c EXCEPT
                !.procs[p].state = "running",
                !.procs[p].retrieve_time = t,
                !.procs[p].start_time = t,
                !.log = log_activity_log(c.log, pr.product_index, pr.activity_id, START, t),
                !.active_processes =
                    log_activity_active(c.active_processes, pr.product_index,
                                        pr.activity_id, START),
                !.queue = schedule(c.queue, Event(t + pr.proc_time, NORMAL, "timeout", p, <<>>))]

\* The release loop of process p from its next put on: either the next
\* factory.put is issued and the process yields on it, or every instance is
\* back and the process writes its record and ends.
ReleaseOrComplete(c, p, pl, t) ==
    LET pr == c.procs[p]
    IN  IF pr.nput < Len(pr.resources)
        THEN factory_put([c EXCEPT !.procs[p].state = "releasing",
                                   !.procs[p].nput = pr.nput + 1],
                         p, pl, pr.resources[pr.nput + 1], t)
        ELSE [c EXCEPT !.procs[p].state = "completed",
                       !.resource_usage =
                           [k \in DOMAIN c.resource_usage \cup
                                  {<<pr.product_index, pr.activity_id>>} |->
                              IF k = <<pr.product_index, pr.activity_id>>
                              THEN UsageRecord(pr)
                              ELSE c.resource_usage[k]]]

\* a rejection that re-queues the process for another attempt
Rejected_retry(c, p, t) ==
    [c EXCEPT !.procs[p].state = "rejected",
              !.queue = schedule(c.queue, Event(t, NORMAL, "init", p, <<>>))]

\* the else branch of activity_processing: nothing but the notification and
\* the clash counter, the generator ends
Rejected(c, p, t) == [c EXCEPT !.procs[p].state = "rejected"]

\* a notification that is skipped for availability clashes
signal_failed_activity_silent(sigs, pr, t, code) ==
    IF code = AVAILABILITY THEN sigs
    ELSE Append(sigs, [product_index |-> pr.product_index,
                       activity_id |-> pr.activity_id,
                       current_time |-> t,
                       failure_code |-> code])

\* operator.signal_failed_activity(product_index, activity_id, current_time,
\* failure_code), appended to the calls the operator has received
signal_failed_activity(sigs, pr, t, code) ==
    Append(sigs, [product_index |-> pr.product_index,
                  activity_id |-> pr.activity_id,
                  current_time |-> t,
                  failure_code |-> code])

\* assign the shared state a process step has produced
Commit(c) ==
    /\ procs' = c.procs
    /\ items' = c.items
    /\ get_queue' = c.get_queue
    /\ queue' = c.queue
    /\ log' = c.log
    /\ active_processes' = c.active_processes
    /\ resource_usage' = c.resource_usage

(* ------------------------------- actions -------------------------------- *)
\* the state after Simulator.__init__ for plan pl
InitPlan(pl) ==
    /\ plan = pl
    /\ sim_time = horizon(pl)
    /\ phase = "constructed"
    /\ now = 0
    /\ queue = <<>>
    /\ get_queue = <<>>
    /\ items = <<>>
    /\ procs = <<>>
    /\ finish = FALSE
    /\ log = <<>>
    /\ active_processes = {}
    /\ failure_code = None
    /\ nr_clashes = 0
    /\ resource_usage = <<>>
    /\ signals = <<>>
    /\ result = [status |-> "running", makespan |-> 0, lateness |-> 0,
                 nr_unfinished_products |-> 0]

Init == \E pl \in PlanNames : InitPlan(pl)

InitSerial == InitPlan("serial")

InitMulti == InitPlan("multi")

InitMalformed == InitPlan("malformed")

\* the instances created by simulate: for each group r, ids 0..capacity[r]-1
RECURSIVE InitialItems(_, _)
InitialItems(cap, r) ==
    IF r > Len(cap) THEN <<>>
    ELSE [j \in 1..cap[r] |-> <<r, j - 1>>] \o InitialItems(cap, r + 1)

\* simulate up to env.run: sentinels, the store and its instances, the
\* generator process and the until event of env.run
simulate ==
    /\ phase = "constructed"
    /\ phase' = "running"
    /\ resource_usage' = [k \in earliest_start(plan) |-> Sentinel(plan, k)]
    /\ items' = InitialItems(capacity(plan), 1)
    /\ queue' = <<Event(0, URGENT, "generator", 0, <<>>),
                  Event(sim_time, URGENT, "until", 0, <<>>)>>
    /\ UNCHANGED <<plan, sim_time, now, get_queue, procs, finish, log,
                   active_processes, failure_code, nr_clashes, signals, result>>

Running == phase = "running" /\ queue # <<>>

\* one round of the while loop of activity_generator: the operator's
\* decision, the spawn of the activity process, the timeout for delay
activity_generator ==
    /\ Running
    /\ Head(queue).kind = "generator"
    /\ ~finish
    /\ now' = Head(queue).time
    /\ \E send_activity \in BOOLEAN, delay \in delays(plan), fin \in BOOLEAN :
         \/ /\ ~send_activity
            /\ queue' = schedule(Tail(queue),
                                 Event(now' + delay, NORMAL, "generator", 0, <<>>))
            /\ finish' = fin
            /\ procs' = procs
         \/ /\ send_activity
            /\ Len(procs) < MaxDispatch
            /\ \E k \in earliest_start(plan) :
               \E proc_time \in processing_time(plan, k) :
                 /\ procs' = Append(procs, Process(k, proc_time, needs_of(plan, k)))
                 /\ queue' = schedule(
                                schedule(Tail(queue),
                                         Event(now', URGENT, "init", Len(procs) + 1, <<>>)),
                                Event(now' + delay, NORMAL, "generator", 0, <<>>))
                 /\ finish' = fin
    /\ UNCHANGED <<plan, sim_time, phase, get_queue, items, log, active_processes,
                   failure_code, nr_clashes, resource_usage, signals, result>>

\* a generator that goes on waiting after a decision with finish set
generator_exit_requery ==
    /\ Running
    /\ Head(queue).kind = "generator"
    /\ finish
    /\ now' = Head(queue).time
    /\ queue' = schedule(Tail(queue), Event(now' + 1, NORMAL, "generator", 0, <<>>))
    /\ UNCHANGED <<plan, sim_time, phase, get_queue, items, procs, finish, log,
                   active_processes, failure_code, nr_clashes, resource_usage,
                   signals, result>>

\* the generator resumes after a decision with finish set: the loop ends
generator_exit ==
    /\ Running
    /\ Head(queue).kind = "generator"
    /\ finish
    /\ now' = Head(queue).time
    /\ queue' = Tail(queue)
    /\ UNCHANGED <<plan, sim_time, phase, get_queue, items, procs, finish, log,
                   active_processes, failure_code, nr_clashes, resource_usage,
                   signals, result>>

\* activity_processing from its start to its first yield or its end: the
\* constraint check, then the rejection or the first request (or START)
activity_processing_check ==
    /\ Running
    /\ Head(queue).kind = "init"
    /\ now' = Head(queue).time
    /\ LET p == Head(queue).proc
           pr == procs[p]
           k == <<pr.product_index, pr.activity_id>>
           chk == ConstraintCheck(plan, items, log, active_processes, now', k,
                                  pr.needs, failure_code)
           c0 == [Ctx EXCEPT !.procs[p].request_time = now']
       IN  /\ failure_code' = chk.code
           /\ IF chk.code = None
              THEN /\ Commit(AcquireOrStart(c0, p, now'))
                   /\ UNCHANGED <<nr_clashes, signals>>
              ELSE /\ Commit(Rejected(c0, p, now'))
                   /\ signals' = signal_failed_activity(signals, pr, now', chk.code)
                   /\ nr_clashes' = nr_clashes + 1
    /\ UNCHANGED <<plan, sim_time, phase, finish, result>>

\* activity_processing resumed by a get event: the instance joins
\* resources and the request loop goes on
activity_processing_retrieve ==
    /\ Running
    /\ Head(queue).kind = "get"
    /\ now' = Head(queue).time
    /\ LET p == Head(queue).proc
           c0 == [Ctx EXCEPT !.procs[p].resources = Append(@, Head(queue).item)]
       IN  Commit(AcquireOrStart(c0, p, now'))
    /\ UNCHANGED <<plan, sim_time, phase, finish, failure_code, nr_clashes, signals, result>>

\* activity_processing resumed by its processing timeout: END is logged and
\* the release loop starts
activity_processing_end ==
    /\ Running
    /\ Head(queue).kind = "timeout"
    /\ now' = Head(queue).time
    /\ LET p == Head(queue).proc
           pr == procs[p]
           c0 == [Ctx EXCEPT
                    !.procs[p].end_time = now',
                    !.log = log_activity_log(log, pr.product_index, pr.activity_id,
                                             END, now'),
                    !.active_processes =
                        log_activity_active(active_processes, pr.product_index,
                                            pr.activity_id, END)]
       IN  Commit(ReleaseOrComplete(c0, p, plan, now'))
    /\ UNCHANGED <<plan, sim_time, phase, finish, failure_code, nr_clashes, signals, result>>

\* a put event is processed: the store serves the waiting gets, then
\* activity_processing resumes in its release loop
activity_processing_release ==
    /\ Running
    /\ Head(queue).kind = "put"
    /\ now' = Head(queue).time
    /\ LET p == Head(queue).proc
           g == _trigger_get(items, get_queue, Tail(queue), now', 1)
           c0 == [Ctx EXCEPT !.items = g.items, !.get_queue = g.get_queue,
                             !.queue = g.queue]
       IN  Commit(ReleaseOrComplete(c0, p, plan, now'))
    /\ UNCHANGED <<plan, sim_time, phase, finish, failure_code, nr_clashes, signals, result>>

\* finish_times: the Finish column without the infinite entries
finish_times(ru) == {ru[k].Finish : k \in {x \in DOMAIN ru : ru[x].Finish # Inf}}

Max(S) == CHOOSE x \in S : \A y \in S : y <= x

\* max(schedule["Finish"]) over the rows of product p
product_finish(ru, p) == Max({ru[k].Finish : k \in {x \in DOMAIN ru : x[1] = p}})

\* the loop over the products, from product p on: lateness and the number of
\* unfinished products
RECURSIVE product_loop(_, _, _, _, _)
product_loop(pl, ru, p, lateness, nr_unfinished_products) ==
    IF p >= nr_products(pl)
    THEN [lateness |-> lateness, nr_unfinished_products |-> nr_unfinished_products]
    ELSE IF product_finish(ru, p) = Inf
         THEN product_loop(pl, ru, p + 1, lateness, nr_unfinished_products + 1)
         ELSE product_loop(pl, ru, p + 1,
                           lateness + Max({0, product_finish(ru, p) - deadline(pl, p)}),
                           nr_unfinished_products)

\* the part of simulate after env.run: max() of an empty list raises
\* ValueError, otherwise the triple is returned
process_results(pl, ru) ==
    IF finish_times(ru) = {}
    THEN [status |-> "ValueError", makespan |-> 0, lateness |-> 0,
          nr_unfinished_products |-> 0]
    ELSE LET r == product_loop(pl, ru, 0, 0, 0)
         IN  [status |-> "returned", makespan |-> Max(finish_times(ru)),
              lateness |-> r.lateness,
              nr_unfinished_products |-> r.nr_unfinished_products]

\* the until event of env.run(until=sim_time): the run stops and simulate
\* processes the results
run_until ==
    /\ Running
    /\ Head(queue).kind = "until"
    /\ now' = Head(queue).time
    /\ queue' = Tail(queue)
    /\ phase' = "done"
    /\ result' = process_results(plan, resource_usage)
    /\ UNCHANGED <<plan, sim_time, get_queue, items, procs, finish, log,
                   active_processes, failure_code, nr_clashes, resource_usage,
                   signals>>

Next ==
    \/ simulate
    \/ activity_generator
    \/ generator_exit
    \/ activity_processing_check
    \/ activity_processing_retrieve
    \/ activity_processing_end
    \/ activity_processing_release
    \/ run_until

Spec == Init /\ [][Next]_vars

\* the runs of the other plans
SpecSerial == InitSerial /\ [][Next]_vars

SpecMulti == InitMulti /\ [][Next]_vars

SpecMalformed == InitMalformed /\ [][Next]_vars

(* ------------------------------ properties ------------------------------ *)
ProcIds == 1..Len(procs)

KeyOf(pr) == <<pr.product_index, pr.activity_id>>

\* instances process p has acquired and not yet put back
HeldBy(p) == SubSeq(procs[p].resources, procs[p].nput + 1, Len(procs[p].resources))

\* instances taken from the store for a get of process p that p has not yet
\* been resumed with
InFlightTo(p) ==
    {i \in 1..Len(queue) : queue[i].kind = "get" /\ queue[i].proc = p}

\* number of instances of group r currently held by activity processes
InUse(r) ==
    LET n[p \in 0..Len(procs)] ==
          IF p = 0 THEN 0
          ELSE n[p - 1]
               + available_machines(HeldBy(p), r)
               + Cardinality({i \in InFlightTo(p) : queue[i].item[1] = r})
    IN  n[Len(procs)]

Completed(k) == k \in DOMAIN resource_usage /\ resource_usage[k].processed

\* C1: in every state of a run, for every resource group the instances in
\* the pool plus the instances held by activity processes are exactly the
\* group's capacity.
C1_CapacityInvariant ==
    phase # "constructed" =>
        \A r \in Groups(plan) :
            available_machines(items, r) + InUse(r) = capacity(plan)[r]

\* C1 witness: after a rejection and a full release, a process holds two
\* instances while another one waits in the get queue.
C1_Witness ==
    /\ nr_clashes > 0
    /\ \E p \in ProcIds : procs[p].state = "completed" /\ procs[p].nput > 0
    /\ \E p \in ProcIds : procs[p].state = "running" /\ Len(HeldBy(p)) = 2

\* C2: at run end, two completed activities of which one declares the other
\* incompatible have disjoint intervals [start_time, finish_time).
C2_NoPhantomConcurrency ==
    phase = "done" =>
        \A k1 \in DOMAIN resource_usage :
        \A k2 \in constraints(plan, k1) :
            (Completed(k1) /\ Completed(k2)) =>
                ~ (/\ resource_usage[k1].Start < resource_usage[k2].Finish
                   /\ resource_usage[k2].Start < resource_usage[k1].Finish)

\* C3: every completed activity starts at least min_lag after each of its
\* (completed) predecessors started.
C3_MinLagSound ==
    \A k \in DOMAIN resource_usage :
    \A i \in 1..Len(predecessors(plan, k)) :
        LET pk == <<k[1], predecessors(plan, k)[i]>>
        IN  (Completed(k) /\ Completed(pk)) =>
                resource_usage[k].Start - resource_usage[pk].Start
                    >= temporal_relations(plan, k[1], pk[2], k[2]).min_lag

\* C4: every completed activity starts at most max_lag after each (completed)
\* predecessor whose temporal relation declares a max lag, a declared max lag
\* of 0 included.
C4_MaxLagSound ==
    \A k \in DOMAIN resource_usage :
    \A i \in 1..Len(predecessors(plan, k)) :
        LET pk == <<k[1], predecessors(plan, k)[i]>>
            rel == temporal_relations(plan, k[1], pk[2], k[2])
        IN  (Completed(k) /\ Completed(pk) /\ rel.has_max) =>
                resource_usage[k].Start - resource_usage[pk].Start <= rel.max_lag

IsSentinel(rec) ==
    /\ ~rec.processed
    /\ rec.Request = Inf /\ rec.Retrieve = Inf /\ rec.Start = Inf /\ rec.Finish = Inf

FullyPopulated(rec) ==
    /\ rec.processed
    /\ rec.Request < Inf /\ rec.Retrieve < Inf /\ rec.Start < Inf /\ rec.Finish < Inf

\* C5: at every point of the run each ResourceUsageRecord is either the
\* untouched sentinel or carries four finite timestamps.
C5_SentinelInvariant ==
    \A k \in DOMAIN resource_usage :
        IsSentinel(resource_usage[k]) \/ FullyPopulated(resource_usage[k])

\* C5 witness: at run end an activity that completed has been dispatched a
\* second time and is in flight at the horizon, its record still fully
\* populated, and a rejected activity's record is the sentinel.
C5_Witness ==
    /\ phase = "done"
    /\ \E p, q \in ProcIds :
          /\ p # q /\ KeyOf(procs[p]) = KeyOf(procs[q])
          /\ procs[p].state = "completed"
          /\ procs[q].state \in {"acquiring", "running", "releasing"}
          /\ FullyPopulated(resource_usage[KeyOf(procs[p])])
    /\ \E p \in ProcIds :
          procs[p].state = "rejected" /\ IsSentinel(resource_usage[KeyOf(procs[p])])

(* ----------------------- the Checking step of a process ----------------- *)
\* the next event starts process p: its constraint check is about to run
Checking(p) ==
    /\ Running
    /\ Head(queue).kind = "init"
    /\ Head(queue).proc = p

\* availability as the specification states it, on the current pool
AvailabilitySatisfied(p) ==
    \A r \in 1..Len(procs[p].needs) :
        procs[p].needs[r] > 0 => available_machines(items, r) >= procs[p].needs[r]

Preds(p) == predecessors(plan, KeyOf(procs[p]))

PredStarted(p, i) ==
    fetch_latest_entry(log, procs[p].product_index, Preds(p)[i], START) # 0

\* now - predecessor_start for the i-th predecessor of p's activity
Elapsed(p, i) ==
    Head(queue).time
      - log[fetch_latest_entry(log, procs[p].product_index, Preds(p)[i], START)].timestamp

Relation(p, i) ==
    temporal_relations(plan, procs[p].product_index, Preds(p)[i], procs[p].activity_id)

\* precedence as the specification states it: every predecessor has started,
\* at least min_lag ago and, when a max lag is declared, at most max_lag ago
PrecedenceSatisfied(p) ==
    \A i \in 1..Len(Preds(p)) :
        /\ PredStarted(p, i)
        /\ Elapsed(p, i) >= Relation(p, i).min_lag
        /\ Relation(p, i).has_max => Elapsed(p, i) <= Relation(p, i).max_lag

\* compatibility as the specification states it
CompatibilitySatisfied(p) ==
    constraints(plan, KeyOf(procs[p])) \cap active_processes = {}

\* C6: the check is decided by availability, then precedence, then
\* compatibility: the stored failure code is the code of the first check that
\* is not satisfied, and the process goes on to acquisition only if all three
\* are satisfied.
C6_CheckOrder ==
    [][\A p \in ProcIds : Checking(p) =>
          /\ ~AvailabilitySatisfied(p) =>
                failure_code' = AVAILABILITY /\ procs'[p].state = "rejected"
          /\ (AvailabilitySatisfied(p) /\ ~PrecedenceSatisfied(p)) =>
                /\ failure_code' \in {PRECEDENCE, MIN_LAG, MAX_LAG}
                /\ procs'[p].state = "rejected"
          /\ (/\ AvailabilitySatisfied(p) /\ PrecedenceSatisfied(p)
              /\ ~CompatibilitySatisfied(p)) =>
                failure_code' = COMPATIBILITY /\ procs'[p].state = "rejected"
          /\ (/\ AvailabilitySatisfied(p) /\ PrecedenceSatisfied(p)
              /\ CompatibilitySatisfied(p)) =>
                failure_code' = None /\ procs'[p].state # "rejected"]_vars

\* C7: with availability satisfied, every predecessor started, none beyond
\* its max lag and one of them started less than min_lag ago, the activity is
\* rejected and the operator is signalled with MIN_LAG.
C7_MinLagRejected ==
    [][\A p \in ProcIds :
          (/\ Checking(p)
           /\ AvailabilitySatisfied(p)
           /\ \A i \in 1..Len(Preds(p)) :
                 /\ PredStarted(p, i)
                 /\ Relation(p, i).has_max => Elapsed(p, i) <= Relation(p, i).max_lag
           /\ \E i \in 1..Len(Preds(p)) : Elapsed(p, i) < Relation(p, i).min_lag)
          => /\ procs'[p].state = "rejected"
             /\ failure_code' = MIN_LAG
             /\ Len(signals') = Len(signals) + 1
             /\ signals'[Len(signals')].failure_code = MIN_LAG]_vars

\* process p has no event left in the queue and waits in no get queue
Ended(p) ==
    /\ \A i \in 1..Len(queue) : queue[i].proc = p => queue[i].kind = "generator"
    /\ \A i \in 1..Len(get_queue) : get_queue[i].proc # p

\* C8: a rejection leaves the pool, the log, the ActiveSet and the
\* ResourceUsageRecords as they were, and a rejected process takes no
\* further step.
C8_RejectionFrame ==
    [][\A p \in ProcIds :
          /\ (Checking(p) /\ procs'[p].state = "rejected") =>
                /\ items' = items
                /\ get_queue' = get_queue
                /\ log' = log
                /\ active_processes' = active_processes
                /\ resource_usage' = resource_usage
                /\ nr_clashes' = nr_clashes + 1
                /\ Ended(p)'
          /\ procs[p].state = "rejected" =>
                procs'[p] = procs[p] /\ Ended(p)']_vars

\* C8 witness: an activity that completed earlier is dispatched again and
\* rejected while another process holds instances; its record is still the
\* completed one.
C8_Witness ==
    \E p, q \in ProcIds :
        /\ procs[p].state = "rejected"
        /\ Completed(KeyOf(procs[p]))
        /\ procs[q].state = "running"
        /\ Len(HeldBy(q)) > 0

RejectedProcs == {p \in ProcIds : procs[p].state = "rejected"}

\* the outcome of the Checking step of p: a rejection with one notification
\* carrying p's product index, activity id, the current time and the stored
\* failure code, and one more clash; or neither
CheckOutcome(p) ==
    \/ /\ procs'[p].state = "rejected"
       /\ failure_code' \in FailureCode
       /\ signals' = Append(signals,
                            [product_index |-> procs[p].product_index,
                             activity_id |-> procs[p].activity_id,
                             current_time |-> Head(queue).time,
                             failure_code |-> failure_code'])
       /\ nr_clashes' = nr_clashes + 1
    \/ /\ procs'[p].state \in {"acquiring", "running"}
       /\ failure_code' = None
       /\ signals' = signals
       /\ nr_clashes' = nr_clashes

\* C9: every Checking step ends in a rejection with exactly one notification
\* and one clash, or in a pass with neither; the clash counter is the number
\* of rejected dispatches and of notifications at all times.
C9_ClashAccounting ==
    /\ [](nr_clashes = Cardinality(RejectedProcs) /\ nr_clashes = Len(signals))
    /\ [][\A p \in ProcIds : Checking(p) => CheckOutcome(p)]_vars
    /\ [][(\A p \in ProcIds : ~Checking(p)) =>
             (signals' = signals /\ nr_clashes' = nr_clashes)]_vars

\* C9 witness: two rejections with different failure codes and a process
\* that passed its check.
C9_Witness ==
    /\ nr_clashes = 2
    /\ Len(signals) = 2
    /\ signals[1].failure_code # signals[2].failure_code
    /\ \E p \in ProcIds : procs[p].state = "running"

\* C10: evaluating the three checks leaves logger.failure_code (like all
\* other simulator state) as it was before the evaluation.
C10_CheckIsPure ==
    \A p \in ProcIds : Checking(p) =>
        ConstraintCheck(plan, items, log, active_processes, Head(queue).time,
                        KeyOf(procs[p]), procs[p].needs, failure_code).during
            = failure_code

(* ------------------------------ scenarios ------------------------------- *)
\* C11: when the first two dispatches of a run are two activities that
\* declare each other incompatible, both need instances and both are
\* dispatched at t = 0, the second is rejected with COMPATIBILITY, the clash
\* count is 1 and the second activity's record stays the sentinel.
C11_SecondRejected ==
    (/\ plan = "main"
     /\ Len(procs) = 2
     /\ KeyOf(procs[1]) \in constraints(plan, KeyOf(procs[2]))
     /\ KeyOf(procs[2]) \in constraints(plan, KeyOf(procs[1]))
     /\ SeqSum(procs[1].needs) > 0 /\ SeqSum(procs[2].needs) > 0
     /\ procs[1].request_time = 0 /\ procs[2].request_time = 0)
    => /\ procs[2].state = "rejected"
       /\ nr_clashes = 1
       /\ signals[1].failure_code = COMPATIBILITY
       /\ IsSentinel(resource_usage[KeyOf(procs[2])])

\* a process that waits in the get queue of the store
Suspended(p) == \E i \in 1..Len(get_queue) : get_queue[i].proc = p

\* C12: processes that passed the check never block each other for good:
\* there is no state in which processes are suspended in their acquisition
\* while every instance outside the pool is held by a suspended process (so
\* that no release can ever serve them).
C12_NoAcquireDeadlock ==
    ~ (/\ get_queue # <<>>
       /\ \A p \in ProcIds :
             (Len(HeldBy(p)) > 0 \/ InFlightTo(p) # {}) =>
                 (Suspended(p) /\ InFlightTo(p) = {})
       /\ \A i \in 1..Len(get_queue) :
             available_machines(items, get_queue[i].group) = 0)

\* The serial scenario at the check of process p: p is a dispatch of activity
\* 1 (the second activity), activity 0 (the first) was dispatched once and
\* started at t = 0, and no other dispatch has been accepted.
SerialScenario(p) ==
    /\ plan = "serial"
    /\ KeyOf(procs[p]) = <<0, 1>>
    /\ \E q \in ProcIds :
          /\ KeyOf(procs[q]) = <<0, 0>>
          /\ procs[q].start_time = 0
          /\ \A r \in ProcIds \ {p, q} : procs[r].state \in {"rejected", "requested"}

\* the first activity has logged END (and put its instance back)
FirstEnded ==
    \E q \in ProcIds :
        KeyOf(procs[q]) = <<0, 0>> /\ procs[q].state \in {"releasing", "completed"}

\* a dispatch of the second activity accepted at t = 4 starts at 4 and finishes at 9
SerialTimes ==
    \A p \in ProcIds :
        (SerialScenario(p) /\ procs[p].request_time = 4
           /\ procs[p].state \in {"running", "releasing", "completed"}) =>
            /\ procs[p].start_time = 4
            /\ procs[p].state # "running" => procs[p].end_time = 9

\* C14 as stated: in the serial scenario every dispatch of the second activity
\* before t = 4 is rejected and every dispatch at t = 4 is accepted, with
\* start 4 and finish 9.
C14_AcceptedAtFour ==
    /\ []SerialTimes
    /\ [][\A p \in ProcIds : (Checking(p) /\ SerialScenario(p)) =>
             /\ Head(queue).time < 4 => procs'[p].state = "rejected"
             /\ Head(queue).time = 4 => procs'[p].state = "acquiring"]_vars

\* C14 amended: every dispatch before t = 4 is rejected; a dispatch at t = 4
\* is accepted (start 4, finish 9) when it is checked after the first
\* activity has logged END, and rejected with AVAILABILITY when it is checked
\* before that.
C14_AcceptedAfterEnd ==
    /\ []SerialTimes
    /\ [][\A p \in ProcIds : (Checking(p) /\ SerialScenario(p)) =>
             /\ Head(queue).time < 4 => procs'[p].state = "rejected"
             /\ (Head(queue).time = 4 /\ FirstEnded) => procs'[p].state = "acquiring"
             /\ (Head(queue).time = 4 /\ ~FirstEnded) =>
                   procs'[p].state = "rejected" /\ failure_code' = AVAILABILITY]_vars

\* C14 witness: the second activity was rejected before t = 4, dispatched
\* again at t = 4 and completed with start 4 and finish 9.
C14_Witness ==
    /\ plan = "serial"
    /\ nr_clashes > 0
    /\ \E p \in ProcIds : SerialScenario(p) /\ procs[p].request_time = 4
    /\ Completed(<<0, 1>>)
    /\ resource_usage[<<0, 1>>].Start = 4
    /\ resource_usage[<<0, 1>>].Finish = 9

\* the need of process p for some group is larger than the group's capacity
ExceedsCapacity(p) ==
    \E r \in 1..Len(procs[p].needs) :
        r \in Groups(plan) /\ procs[p].needs[r] > capacity(plan)[r]

\* C15: an activity whose need for a group exceeds the group's capacity is
\* rejected with AVAILABILITY at every dispatch, never acquires an instance
\* and never logs START.
C15_OverCapacityRejected ==
    /\ [](\A p \in ProcIds : ExceedsCapacity(p) =>
             /\ procs[p].state \in {"requested", "rejected"}
             /\ procs[p].resources = <<>>
             /\ InFlightTo(p) = {}
             /\ fetch_latest_entry(log, procs[p].product_index,
                                   procs[p].activity_id, START) = 0)
    /\ [][\A p \in ProcIds : (Checking(p) /\ ExceedsCapacity(p)) =>
             /\ procs'[p].state = "rejected"
             /\ failure_code' = AVAILABILITY
             /\ signals'[Len(signals')].failure_code = AVAILABILITY]_vars

\* C15 witness: the over-capacity activity has been rejected at two
\* different times, once with the whole group in the pool and once with the
\* group's instance held by a running process.
C15_Witness ==
    /\ plan = "multi"
    /\ \E i, j \in 1..Len(signals) :
          /\ signals[i].activity_id = 1 /\ signals[j].activity_id = 1
          /\ signals[i].current_time # signals[j].current_time
          /\ signals[i].failure_code = AVAILABILITY
          /\ signals[j].failure_code = AVAILABILITY
    /\ \E p \in ProcIds : procs[p].state = "running"
    /\ available_machines(items, 2) = 0

\* some predecessor of p's activity has no START entry in the log
PredMissing(p) == \E i \in 1..Len(Preds(p)) : ~PredStarted(p, i)

\* a predecessor declared before the first missing one is beyond its
\* (nonzero) declared max lag, and not short of its min lag
MaxLagBeforeMissing(p) ==
    \E i \in 1..Len(Preds(p)) :
        /\ \A j \in 1..i : PredStarted(p, j)
        /\ Elapsed(p, i) >= Relation(p, i).min_lag
        /\ Relation(p, i).has_max
        /\ Relation(p, i).max_lag # 0
        /\ Elapsed(p, i) > Relation(p, i).max_lag

IsGeneratorEvent(e) == e.kind = "generator"

\* the pending events of the activity_generator process
GeneratorEvents(q) == SelectSeq(q, IsGeneratorEvent)

\* the next event resumes the generator
GeneratorStep == Running /\ Head(queue).kind = "generator"

\* the generator step spawned exactly one process, which has not run yet and
\* whose start is scheduled at the current time
SpawnedOne ==
    /\ Len(procs') = Len(procs) + 1
    /\ SubSeq(procs', 1, Len(procs)) = procs
    /\ procs'[Len(procs')].state = "requested"
    /\ \E i \in 1..Len(queue') :
          /\ queue'[i].kind = "init"
          /\ queue'[i].proc = Len(procs')
          /\ queue'[i].time = now'

\* C17: each operator query spawns at most one process without running it
\* and schedules the next query exactly one delay later; no query follows a
\* decision with the termination flag or the horizon; no step of an activity
\* process moves, adds or removes a query.
C17_DispatchLoop ==
    /\ [](Len(GeneratorEvents(queue)) <= 1)
    /\ [][(GeneratorStep /\ ~finish) =>
             /\ now' = Head(queue).time
             /\ procs' = procs \/ SpawnedOne
             /\ Len(GeneratorEvents(queue')) = 1
             /\ (GeneratorEvents(queue')[1].time - now') \in delays(plan)]_vars
    /\ [][(GeneratorStep /\ finish) =>
             (GeneratorEvents(queue') = <<>> /\ procs' = procs)]_vars
    /\ [][(phase = "running" /\ ~GeneratorStep) =>
             /\ GeneratorEvents(queue') = GeneratorEvents(queue)
             /\ Len(procs') = Len(procs)
             /\ finish' = finish]_vars
    /\ [][phase # "done"]_vars

\* C17 witness: the operator has set the termination flag and the generator
\* has ended while one process it spawned is running and another was rejected.
C17_Witness ==
    /\ phase = "running"
    /\ finish
    /\ GeneratorEvents(queue) = <<>>
    /\ \E p \in ProcIds : procs[p].state = "running"
    /\ \E p \in ProcIds : procs[p].state = "rejected"

(* ------------------------------- metrics -------------------------------- *)
\* the finite finish times of the ResourceUsageRecords
FiniteFinishes ==
    {resource_usage[k].Finish :
        k \in {x \in DOMAIN resource_usage : resource_usage[x].Finish < Inf}}

\* C18: at run end the reported makespan is the largest finite finish time;
\* when no record has a finite finish time the run reports the distinct
\* outcome 'no activity completed' instead of a number or an abort.
C18_Makespan ==
    phase = "done" =>
        IF FiniteFinishes = {}
        THEN result.status = "no activity completed"
        ELSE /\ result.status = "returned"
             /\ result.makespan \in FiniteFinishes
             /\ \A f \in FiniteFinishes : f <= result.makespan

\* product p has a planned activity whose record is still the sentinel
Unfinished(p) ==
    \E k \in DOMAIN resource_usage : k[1] = p /\ IsSentinel(resource_usage[k])

\* the latest finish time of the activities of product p
LatestFinish(p) ==
    CHOOSE f \in {resource_usage[k].Finish : k \in {x \in DOMAIN resource_usage : x[1] = p}} :
        \A k \in DOMAIN resource_usage : k[1] = p => resource_usage[k].Finish <= f

\* the sum over the finished products of max(0, latest finish - deadline)
TotalLateness ==
    LET late(p) == IF LatestFinish(p) > deadline(plan, p)
                   THEN LatestFinish(p) - deadline(plan, p) ELSE 0
        sum[n \in 0..nr_products(plan)] ==
            IF n = 0 THEN 0
            ELSE sum[n - 1] + (IF Unfinished(n - 1) THEN 0 ELSE late(n - 1))
    IN  sum[nr_products(plan)]

\* C19: at run end the reported number of unfinished products is the number
\* of products with a sentinel record, and the reported lateness is the sum
\* of max(0, latest finish - deadline) over the other products.
C19_UnfinishedAndLateness ==
    phase = "done" =>
        /\ result.status = "returned"
        /\ result.nr_unfinished_products =
              Cardinality({p \in 0..(nr_products(plan) - 1) : Unfinished(p)})
        /\ result.lateness = TotalLateness

\* the plan is malformed: a needs vector whose length is not the number of
\* resource groups, or a demanded group without capacity
Malformed(pl) ==
    \E k \in earliest_start(pl) :
        \/ Len(needs_of(pl, k)) # nr_resources(pl)
        \/ \E r \in 1..Len(needs_of(pl, k)) :
              r \in Groups(pl) /\ needs_of(pl, k)[r] > 0 /\ capacity(pl)[r] <= 0

\* C20: a run on a malformed plan is halted as fatal: it produces no
\* rejection and returns no normal result.
C20_MalformedIsFatal ==
    Malformed(plan) => (nr_clashes = 0 /\ result.status # "returned")

(* --------------------------- process lifecycle -------------------------- *)
\* the pair k has a START entry that no END entry of the pair follows
OpenStart(k) ==
    LET s == fetch_latest_entry(log, k[1], k[2], START)
        e == fetch_latest_entry(log, k[1], k[2], END)
    IN  s # 0 /\ e < s

\* a process of pair k is between START and END, and the latest START entry
\* of the pair is its own
RunningProcess(k) ==
    \E p \in ProcIds :
        /\ KeyOf(procs[p]) = k
        /\ procs[p].state = "running"
        /\ log[fetch_latest_entry(log, k[1], k[2], START)].timestamp = procs[p].start_time

\* C21: every pair in the ActiveSet has a START entry not followed by an END
\* entry of the pair, and a process of the pair is between START and END;
\* repeated dispatches of one pair included.
C21_ActiveSetInvariant ==
    \A k \in active_processes : OpenStart(k) /\ RunningProcess(k)

\* C21 witness: a pair that completed once is in the ActiveSet again, with
\* two further dispatches of it running at the same time.
C21_Witness ==
    \E k \in active_processes :
    \E p, q, r \in ProcIds :
        /\ p # q /\ p # r /\ q # r
        /\ KeyOf(procs[p]) = k /\ KeyOf(procs[q]) = k /\ KeyOf(procs[r]) = k
        /\ procs[p].state = "completed"
        /\ procs[q].state = "running" /\ procs[r].state = "running"
        /\ EntryIndexes(log, k[1], k[2], END) # {}

\* C22: acquisition never blocks: a process that passed its check holds all
\* its instances at the virtual time of its request, so no process is still
\* acquiring at a later time and retrieve_time = request_time for every
\* process that has retrieved and in every completed record.
C22_AcquisitionNeverBlocks ==
    /\ \A p \in ProcIds :
          /\ procs[p].state = "acquiring" => now = procs[p].request_time
          /\ procs[p].retrieve_time # Inf =>
                procs[p].retrieve_time = procs[p].request_time
    /\ \A k \in DOMAIN resource_usage :
          Completed(k) => resource_usage[k].Retrieve = resource_usage[k].Request

\* the log holds a START entry of pair k at time t1 and a later END entry of
\* the pair at time t2
LoggedInterval(k, t1, t2) ==
    \E i \in EntryIndexes(log, k[1], k[2], START) :
    \E j \in EntryIndexes(log, k[1], k[2], END) :
        i < j /\ log[i].timestamp = t1 /\ log[j].timestamp = t2

\* C23: every completed ResourceUsageRecord has request_time <= retrieve_time
\* = start_time and finish_time = start_time + processing duration, the log
\* holds START at start_time and END at finish_time, and the assigned
\* instances of each group are as many as the activity needs of that group.
C23_RecordConsistent ==
    \A k \in DOMAIN resource_usage :
        Completed(k) =>
            LET rec == resource_usage[k]
            IN  /\ rec.Request <= rec.Retrieve
                /\ rec.Retrieve = rec.Start
                /\ (rec.Finish - rec.Start) \in processing_time(plan, k)
                /\ LoggedInterval(k, rec.Start, rec.Finish)
                /\ rec.Needs = needs_of(plan, k)
                /\ \A r \in Groups(plan) :
                      available_machines(rec.resources, r) = needs_of(plan, k)[r]

\* C23 witness: one pair has completed twice, at different times, and a
\* record of an activity that needs an instance of each of two groups is
\* completed.
C23_Witness ==
    /\ \E p, q \in ProcIds :
          /\ KeyOf(procs[p]) = KeyOf(procs[q])
          /\ procs[p].state = "completed" /\ procs[q].state = "completed"
          /\ procs[p].start_time < procs[q].start_time
    /\ \E k \in DOMAIN resource_usage :
          Completed(k) /\ Len(resource_usage[k].resources) = 2

(* ------------------------- resource instances --------------------------- *)
\* the instances simulate puts into the store
Instances ==
    {InitialItems(capacity(plan), 1)[i] :
        i \in 1..Len(InitialItems(capacity(plan), 1))}

CountIn(s, inst) == Cardinality({i \in 1..Len(s) : s[i] = inst})

\* number of places instance inst is in: the pool, the instances a process
\* holds, the instances taken from the pool for a process
Copies(inst) ==
    LET n[p \in 0..Len(procs)] ==
          IF p = 0 THEN CountIn(items, inst)
          ELSE n[p - 1]
               + CountIn(HeldBy(p), inst)
               + Cardinality({i \in InFlightTo(p) : queue[i].item = inst})
    IN  n[Len(procs)]

\* C24: in every state each resource instance is in exactly one place, the
\* pool or the hands of one activity process, and an instance enters the pool
\* during the run only in a step in which the process that held it puts it
\* back.
C24_NoDoubleAllocation ==
    /\ [](phase # "constructed" => \A inst \in Instances : Copies(inst) = 1)
    /\ [][phase = "running" =>
             \A inst \in Instances :
                 (CountIn(items, inst) = 0 /\ CountIn(items', inst) > 0) =>
                     \E p \in ProcIds :
                         /\ CountIn(HeldBy(p), inst) > 0
                         /\ CountIn(HeldBy(p)', inst) = 0
                         /\ procs'[p].nput = procs[p].nput + 1]_vars

\* C24 witness: an instance that one process acquired and released is held by
\* another process, while a third process waits for an instance in the
\* store's get queue.
C24_Witness ==
    \E p, q \in ProcIds :
        /\ p # q
        /\ procs[p].state = "completed"
        /\ \E inst \in Instances :
              CountIn(procs[p].resources, inst) > 0 /\ CountIn(HeldBy(q), inst) > 0
        /\ get_queue # <<>>

(* ----------------------------- run horizon ------------------------------ *)
\* processes that have logged START and not END
InFlight == {p \in ProcIds : procs[p].state = "running"}

\* a step of an activity process (or its spawn): the processes, the log,
\* the pool, the get queue or the records change
ProcessTransition ==
    \/ procs' # procs
    \/ log' # log
    \/ items' # items
    \/ get_queue' # get_queue
    \/ resource_usage' # resource_usage

\* the instances process p holds are not in the pool
NotReturned(p) ==
    /\ Len(HeldBy(p)) = SeqSum(procs[p].needs)
    /\ \A i \in 1..Len(HeldBy(p)) : CountIn(items, HeldBy(p)[i]) = 0

\* C25: no step of an activity process is executed at or after the horizon;
\* at run end an activity that logged START and whose start_time + processing
\* duration is not before the horizon has logged no END, its record is the
\* sentinel, its instances are not in the pool and the returned number of
\* unfinished products counts its product.
C25_RunHorizon ==
    /\ [][(phase = "running" /\ ProcessTransition) => now' < sim_time]_vars
    /\ [](\A p \in ProcIds :
             (procs[p].start_time # Inf
                /\ procs[p].start_time + procs[p].proc_time < sim_time
                /\ phase = "done") => procs[p].state = "completed")
    /\ [](phase = "done" =>
             \A p \in InFlight :
                 /\ procs[p].start_time + procs[p].proc_time >= sim_time
                 /\ procs[p].end_time = Inf
                 /\ IsSentinel(resource_usage[KeyOf(procs[p])])
                 /\ NotReturned(p)
                 /\ Unfinished(procs[p].product_index)
                 /\ result.status = "returned"
                 /\ result.nr_unfinished_products =
                       Cardinality({q \in 0..(nr_products(plan) - 1) : Unfinished(q)}))

====
